---- MODULE Spec2Model ----
(***************************************************************************)
(* A model of the eCRNow launch script (scripts/ecr_flow_node.js) and of   *)
(* the FHIR Encounter resolvers (utils/fhirQueries.js,                     *)
(* utils/fhirQueriesPost.js).                                              *)
(*                                                                         *)
(* The program is a single async thread: every action below is the code    *)
(* that runs between two awaits (from the resumption of one awaited HTTP   *)
(* call to the issue of the next one, or to the end of the run).           *)
(*                                                                         *)
(* JS strings that are only compared are TLA+ strings.  A FHIR reference   *)
(* ("Patient/56089") is kept as the sequence of its '/'-separated segments *)
(* (<<"Patient", "56089">>), which is what split('/') yields; the absent   *)
(* reference is the empty sequence, which split never yields.              *)
(***************************************************************************)
EXTENDS Integers, Sequences, FiniteSets, Bags, TLC

\* ------------------------------------------------------------------ bounds
\* The longest chain of pages (first page + next links) a search serves.
MaxPages == 2
\* The most entries in one Bundle page.
MaxEntries == 2

\* ------------------------------------------------------------ JS values
\* The JS value undefined (a missing env variable, a missing JSON field).
Undefined == "<undefined>"
\* A whitespace-only string.
Blank == " "
\* JS truthiness of undefined | string.
Truthy(v) == v # Undefined /\ v # ""
\* String(v).trim() on the strings of this model.
Trim(v) == IF v = Blank THEN "" ELSE v
\* The absent reference (enc.subject?.reference is undefined).
NoRef == <<>>
\* ref.startsWith(prefix + "/") on a reference kept as its segments.
StartsWith(ref, prefix) == Len(ref) >= 2 /\ ref[1] = prefix
\* ref.split('/')[1]
Segment1(ref) == IF Len(ref) >= 2 THEN ref[2] ELSE Undefined

\* ---------------------------------------------------- insertion-ordered Map
\* A JS Map as the sequence of its [k, v] pairs in insertion order.
MapKeys(m) == {m[j].k : j \in 1..Len(m)}
MapHas(m, key) == key \in MapKeys(m)
\* Map.prototype.set: an existing key keeps its place, a new key is appended.
MapSet(m, key, val) ==
  IF MapHas(m, key)
  THEN [j \in 1..Len(m) |-> IF m[j].k = key THEN [k |-> key, v |-> val] ELSE m[j]]
  ELSE Append(m, [k |-> key, v |-> val])
\* Array.from(map.values())
MapValues(m) == [j \in 1..Len(m) |-> m[j].v]

\* ------------------------------------------------------------- resources
\* A FHIR resource: its type, its id and the one reference the code reads
\* (Encounter.subject.reference, Condition.encounter.reference).
Resource(t, i, r) == [resourceType |-> t, id |-> i, ref |-> r]

\* What an Encounter search page may carry.
EncounterPageResources ==
  { Resource("Encounter", "1", <<"Patient", "p1">>),
    Resource("Encounter", "1", NoRef),
    Resource("Encounter", "2", <<"Patient", "p2">>),
    Resource("Encounter", "2", <<"Patient", "">>),
    Resource("Encounter", "2", <<"Group", "g1">>),
    Resource("Encounter", Undefined, <<"Patient", "p1">>),
    Resource("Patient", "p1", NoRef) }

\* What a Condition search page may carry: Conditions referring to Encounter 1
\* or 2, to nothing, or with the truncated reference "Encounter/".
ConditionPageResources ==
  { Resource("Condition", "c1", <<"Encounter", "1">>),
    Resource("Condition", "c2", <<"Encounter", "2">>),
    Resource("Condition", "c4", NoRef),
    Resource("Condition", "c5", <<"Encounter", "">>) }

\* What a Condition search page with _include=Condition:encounter may carry:
\* the Conditions and the Encounters included with them.
PostPageResources ==
  ConditionPageResources \cup
    { Resource("Encounter", "1", <<"Patient", "p1">>),
      Resource("Encounter", "2", <<"Patient", "p2">>) }

\* What GET Encounter/<id> may answer with: an Encounter (whose id may or may
\* not be the one asked for) or a resource of another type without id.
DirectResources ==
  { Resource("Encounter", "1", <<"Patient", "p1">>),
    Resource("Encounter", "2", <<"Patient", "p2">>),
    Resource("OperationOutcome", Undefined, NoRef) }

\* The sequences over S of length at most n.
RECURSIVE SeqsUpTo(_, _)
SeqsUpTo(S, n) ==
  IF n = 0 THEN {<<>>}
  ELSE LET shorter == SeqsUpTo(S, n - 1)
       IN shorter \cup {Append(s, x) : s \in {t \in shorter : Len(t) = n - 1}, x \in S}

\* No page is being walked.
NoBundle == [entry |-> <<>>, next |-> FALSE]
\* A Bundle page: its entries and whether it carries a link with relation "next".
BundlePages(S) == [entry : SeqsUpTo(S, MaxEntries), next : BOOLEAN]

\* --------------------------------------------------------------- settings
BaseKeys == <<"TOKEN_URL", "CLIENT_ID", "FHIR_BASE">>
JwtKeys == <<"KID", "PRIVATE_KEY_PATH">>
SecretKeys == <<"CLIENT_SECRET">>
EcrKeys == <<"ECRNOW_TOKEN_URL", "ECRNOW_CLIENT_ID">>
LaunchKeys == <<"FHIR_BASE", "ECRNOW_API_BASE">>

Range(s) == {s[j] : j \in 1..Len(s)}

\* Settings read straight from the environment: unset, blank or set.
EnvKeys == (Range(BaseKeys) \cup Range(JwtKeys) \cup Range(SecretKeys) \cup Range(EcrKeys))
SettingValues == {Undefined, Blank, "v"}
\* The same without the blank value (a launch run's settings).
SetOrUnset == {Undefined, "v"}
AuthModes == {"SOF_BACKEND", "PRIVATE_KEY_JWT", "CLIENT_SECRET_BASIC", "CLIENT_SECRET_POST", "OTHER"}
\* The values of the FLOW_MODE environment variable: unset, launch in two
\* spellings, notify, and a misspelling.
FlowModes == {Undefined, "launch", "LAUNCH", "notify", "lunch"}

\* The settings whose environment values are drawn from values, with
\* FLOW_MODE as the environment gives it (Load converts it).  ECRNOW_API_BASE
\* has a default, so it is never undefined or empty, but it may be blank.
ConfigsOver(keys, values, flows) ==
  { [key \in EnvKeys \cup {"ECRNOW_API_BASE", "AUTH_MODE", "FLOW_MODE"} |->
       IF key \in keys THEN e[key]
       ELSE IF key \in EnvKeys THEN "v"
       ELSE IF key = "ECRNOW_API_BASE" THEN a
       ELSE IF key = "AUTH_MODE" THEN m
       ELSE f] :
      e \in [keys -> values], a \in {Blank, "v"}, m \in AuthModes, f \in flows }

\* toLowerCase() on the strings of this model.
ToLowerCase(v) ==
  CASE v = "TRUE" -> "true"
    [] v = "FALSE" -> "false"
    [] v = "LAUNCH" -> "launch"
    [] OTHER -> v

\* v || d
OrElse(v, d) == IF Truthy(v) THEN v ELSE d

\* The environment variables that CFG does not copy as they are: SCOPE (with
\* a default), REQUIRE_AUD (made a boolean) and AUD.
FormEnvKeys == {"SCOPE", "REQUIRE_AUD", "AUD"}
FormEnvs ==
  [SCOPE : {Undefined, "", "s"}, REQUIRE_AUD : {Undefined, "TRUE", "false"},
   AUD : {Undefined, "", "a"}]
\* None of the three is set.
NoFormEnv == [SCOPE |-> Undefined, REQUIRE_AUD |-> Undefined, AUD |-> Undefined]

\* CFG.SCOPE, CFG.REQUIRE_AUD and CFG.AUD as the module builds them from the
\* environment e.
LoadForm(e) ==
  [SCOPE |-> OrElse(e.SCOPE, "system/*.read"),
   REQUIRE_AUD |-> (ToLowerCase(OrElse(e.REQUIRE_AUD, "true")) = "true"),
   AUD |-> e.AUD]

\* The environment e with FLOW_MODE set to flow (or unset).
WithFlow(e, flow) ==
  [SCOPE |-> e.SCOPE, REQUIRE_AUD |-> e.REQUIRE_AUD, AUD |-> e.AUD, FLOW_MODE |-> flow]

\* A flow selector that is compared as it was given.
FlowModeAsGiven(v) == OrElse(v, "notify")

\* CFG.FLOW_MODE: (process.env.FLOW_MODE || 'notify').toLowerCase()
LoadFlowMode(v) == ToLowerCase(OrElse(v, "notify"))

\* The CFG object: the settings copied from the environment and the
\* converted ones.
Load(base, e) ==
  [key \in DOMAIN base \cup FormEnvKeys |->
     IF key \in FormEnvKeys THEN LoadForm(e)[key]
     ELSE IF key = "FLOW_MODE" THEN LoadFlowMode(e.FLOW_MODE)
     ELSE base[key]]

\* The settings getFhirToken reads.
FhirKeys == Range(BaseKeys) \cup Range(JwtKeys) \cup Range(SecretKeys)

\* need() without the trim: a blank value passes for a set one.
MissingUntrimmed(obj, keys) ==
  SelectSeq(keys, LAMBDA key : ~Truthy(obj[key]))

\* need(obj, keys): the keys that are missing or blank, in the order given.
Missing(obj, keys) ==
  SelectSeq(keys, LAMBDA key : ~Truthy(obj[key]) \/ Trim(obj[key]) = "")

\* getPatientIdFromEncounter without the startsWith test: any reference's
\* second segment passes for a patient id.
getPatientIdOfAnyReference(enc) == Segment1(enc.ref)

\* getPatientIdFromEncounter(enc); null is Undefined here (both are falsy).
getPatientIdFromEncounter(enc) ==
  IF StartsWith(enc.ref, "Patient") THEN Segment1(enc.ref) ELSE Undefined

\* ------------------------------------------------------------------ state
VARIABLES
  pc,          \* where the thread is suspended
  CFG,         \* the configuration object
  caller,      \* who called the resolver: "runLaunchFlow" or "direct"
  err,         \* the error that ended the run ([kind |-> "none"] if none)
  exitCode,    \* the process exit status once the run is over (-1 before)
  reqs,        \* every HTTP request issued so far, in order
  fhirToken,   \* getFhirToken's result
  ecrBearer,   \* getEcrToken's result
  encs,        \* the resolver's Map id -> resource
  nServed,     \* how many pages the server has served to the current search
  lastNext,    \* whether the last page served carried a next link
  servedIds,   \* the ids of the Encounters on the pages served so far
  encounters,  \* the sequence the resolver returned
  idx,         \* the launch loop's position in encounters
  warned,      \* the Encounters skipped with a warning
  failed,      \* the launch POSTs that failed (caught and logged)
  strategy,    \* the resolver in use: "dateRange", "codesGet" or "codesPost"
  bundle,      \* the page whose Conditions are being resolved one by one
  pos,         \* the position in that page's entries (or references)
  nServed2,    \* how many pages the server has served to the fallback search
  condRefIds,  \* the Encounter ids the Conditions served so far refer to
  fallbackRefIds, \* the same for the Conditions of the POST fallback's pages
  fetched,     \* the bag of the GET Encounter/<id> requests issued so far
  env,         \* the environment variables that CFG converts when it is built
  answered,    \* how many HTTP requests have been answered (or have failed)
  tokenResp,   \* the last answer of the FHIR token endpoint
  signing,     \* whether the private key was read, and Date.now() at signing
  encounter,   \* buildNotificationBundle's first argument
  bundleOptions, \* buildNotificationBundle's second argument
  notification \* buildNotificationBundle's result

vars == <<pc, CFG, caller, err, exitCode, reqs, fhirToken, ecrBearer, encs,
          nServed, lastNext, servedIds, encounters, idx, warned, failed,
          strategy, bundle, pos, nServed2, condRefIds, fallbackRefIds, fetched,
          env, answered, tokenResp, signing, encounter, bundleOptions, notification>>

NoError == [kind |-> "none", miss |-> <<>>]
Error(kind) == [kind |-> kind, miss |-> <<>>]
MissingEnv(miss) == [kind |-> "MissingEnv", miss |-> miss]

Request(kind, a, b) == [kind |-> kind, a |-> a, b |-> b]

\* A GET Encounter/<id>: the id, the pass that issued it, and whether the
\* search had already delivered an Encounter of that id by inclusion.
Fetch(id, pass, included) == [id |-> id, pass |-> pass, included |-> included]
\* The request sent twice, the second time without waiting for the first.
WithFetchSentTwice(bag, f) == bag (+) SetToBag({f}) (+) SetToBag({f})

\* The bag with one more such request.
WithFetch(bag, f) == bag (+) SetToBag({f})

\* ------------------------------------------------------------ HTTP answers
\* A token endpoint's answer: a failure (error status, transport error,
\* timeout), or a body whose access_token is absent, empty, blank or set.
TokenResponses ==
  {[ok |-> FALSE, access_token |-> Undefined]}
    \cup {[ok |-> TRUE, access_token |-> t] : t \in {Undefined, "", Blank, "tok"}}

\* No answer yet.
NoResponse == [ok |-> FALSE, access_token |-> "<none>"]

\* ---------------------------------------------------------- control flow
builderVars == <<encounter, bundleOptions, notification>>
flowVars == <<fhirToken, ecrBearer, encounters, idx, warned, failed>>
walkVars == <<bundle, pos, nServed2, condRefIds, fallbackRefIds, fetched>>
resolverVars == <<encs, nServed, lastNext, servedIds, strategy, walkVars>>

\* A top-level catch that logs the error and lets the process end normally.
ThrowLoggedOnly(e) ==
  /\ err' = e
  /\ pc' = IF caller = "runLaunchFlow" THEN "done" ELSE "threw"
  /\ exitCode' = IF caller = "runLaunchFlow" THEN 0 ELSE exitCode

\* An error leaves the running function.  In a launch run it reaches main's
\* catch, which exits with status 1; a resolver called directly just throws.
Throw(e) ==
  /\ err' = e
  /\ pc' = IF caller = "runLaunchFlow" THEN "done" ELSE "threw"
  /\ exitCode' = IF caller = "runLaunchFlow" THEN 1 ELSE exitCode

\* The settings getFhirToken needs beyond the base ones, by auth mode.
ModeKeys(mode) ==
  IF mode \in {"SOF_BACKEND", "PRIVATE_KEY_JWT"} THEN JwtKeys ELSE SecretKeys

SupportedModes == {"SOF_BACKEND", "PRIVATE_KEY_JWT", "CLIENT_SECRET_BASIC", "CLIENT_SECRET_POST"}

\* A switch without the default case: a mode that is none of the four is
\* handled as the last case, CLIENT_SECRET_POST.
FhirConfigErrorWithoutDefault(cfg) ==
  IF Missing(cfg, BaseKeys) # <<>> THEN MissingEnv(Missing(cfg, BaseKeys))
  ELSE IF Missing(cfg, ModeKeys(cfg["AUTH_MODE"])) # <<>>
  THEN MissingEnv(Missing(cfg, ModeKeys(cfg["AUTH_MODE"])))
  ELSE NoError

\* The error getFhirToken throws before it sends anything, NoError if none:
\* need(base keys), then the switch on the mode with its own need().
FhirConfigError(cfg) ==
  LET base == Missing(cfg, BaseKeys)
      mode == cfg["AUTH_MODE"]
  IN IF base # <<>> THEN MissingEnv(base)
     ELSE IF mode \notin SupportedModes THEN Error("UnsupportedMode")
     ELSE IF Missing(cfg, ModeKeys(mode)) # <<>> THEN MissingEnv(Missing(cfg, ModeKeys(mode)))
     ELSE NoError

\* One parameter of a URLSearchParams, one header of a request.
Pair(name, v) == [name |-> name, v |-> v]

\* const aud = CFG.AUD || CFG.TOKEN_URL
Audience(cfg) == OrElse(cfg["AUD"], cfg["TOKEN_URL"])
\* The audience parameter sent whatever the flag says.
AddAudAlways(cfg) == Truthy(Audience(cfg))

\* const addAud = CFG.REQUIRE_AUD && aud
AddAud(cfg) == cfg["REQUIRE_AUD"] /\ Truthy(Audience(cfg))

\* Buffer.from(`${id}:${secret}`).toString('base64'), kept as what it encodes.
Base64(id, secret) == <<"base64", id, ":", secret>>

\* The headers of the token request, in the order they are set.
TokenHeaders(cfg) ==
  <<Pair("Accept", "application/json"),
    Pair("Content-Type", "application/x-www-form-urlencoded")>>
  \o (IF cfg["AUTH_MODE"] = "CLIENT_SECRET_BASIC"
      THEN <<Pair("Authorization", <<"Basic", Base64(cfg["CLIENT_ID"], cfg["CLIENT_SECRET"])>>)>>
      ELSE <<>>)

\* A form that carries the secret whenever there is one, also when the
\* Authorization header already does.
TokenFormSecretInEveryBody(cfg, clientAssertion) ==
  <<Pair("grant_type", "client_credentials")>>
  \o (IF Truthy(cfg["SCOPE"]) THEN <<Pair("scope", cfg["SCOPE"])>> ELSE <<>>)
  \o (IF cfg["AUTH_MODE"] \in {"SOF_BACKEND", "PRIVATE_KEY_JWT"}
      THEN <<Pair("client_id", cfg["CLIENT_ID"]),
             Pair("client_assertion_type",
                  "urn:ietf:params:oauth:client-assertion-type:jwt-bearer"),
             Pair("client_assertion", clientAssertion)>>
      ELSE <<Pair("client_id", cfg["CLIENT_ID"]),
             Pair("client_secret", cfg["CLIENT_SECRET"])>>)
  \o (IF AddAud(cfg) THEN <<Pair("aud", Audience(cfg))>> ELSE <<>>)

\* The form of the token request, in the order its parameters are appended;
\* clientAssertion is signClientAssertion's result in the two key modes.
TokenForm(cfg, clientAssertion) ==
  LET mode == cfg["AUTH_MODE"]
      audPart == IF AddAud(cfg) THEN <<Pair("aud", Audience(cfg))>> ELSE <<>>
  IN <<Pair("grant_type", "client_credentials")>>
     \o (IF Truthy(cfg["SCOPE"]) THEN <<Pair("scope", cfg["SCOPE"])>> ELSE <<>>)
     \o (IF mode \in {"SOF_BACKEND", "PRIVATE_KEY_JWT"}
         THEN <<Pair("client_id", cfg["CLIENT_ID"]),
                Pair("client_assertion_type",
                     "urn:ietf:params:oauth:client-assertion-type:jwt-bearer"),
                Pair("client_assertion", clientAssertion)>> \o audPart
         ELSE IF mode = "CLIENT_SECRET_BASIC"
         THEN audPart
         ELSE <<Pair("client_id", cfg["CLIENT_ID"]),
                Pair("client_secret", cfg["CLIENT_SECRET"])>> \o audPart)

\* Date.now() at the signing, in milliseconds.
SigningTimes == {999, 1000, 2500}
\* The private key has not been read.
NotSigned == [read |-> FALSE, at |-> -1]

\* An assertion whose times are left in milliseconds.
ClientAssertionInMillis(clientId, aud, kid, ms) ==
  [header |-> [alg |-> "RS256", kid |-> kid],
   payload |-> [iss |-> clientId, sub |-> clientId, aud |-> aud,
                jti |-> "uuid", iat |-> ms, exp |-> ms + 300]]

\* The token signClientAssertion builds at Date.now() = ms: its protected
\* header and its payload (the signature is not kept; jti is a fresh uuid).
ClientAssertion(clientId, aud, kid, ms) ==
  LET now == ms \div 1000
  IN [header |-> [alg |-> "RS256", kid |-> kid],
      payload |-> [iss |-> clientId, sub |-> clientId, aud |-> aud,
                   jti |-> "uuid", iat |-> now, exp |-> now + 300]]

\* main: the flow is selected by FLOW_MODE.
main ==
  /\ pc = "main"
  /\ pc' = IF CFG["FLOW_MODE"] = "launch" THEN "getFhirToken" ELSE "runNotifyFlow"
  /\ UNCHANGED answered
  /\ UNCHANGED <<tokenResp, signing>>
  /\ UNCHANGED <<env, builderVars, CFG, caller, err, exitCode, reqs, flowVars, resolverVars>>

\* runNotifyFlow: the placeholder; main then logs Done and the process ends.
runNotifyFlow ==
  /\ pc = "runNotifyFlow"
  /\ pc' = "done"
  /\ exitCode' = 0
  /\ UNCHANGED answered
  /\ UNCHANGED <<tokenResp, signing>>
  /\ UNCHANGED <<env, builderVars, CFG, caller, err, reqs, flowVars, resolverVars>>

\* getFhirToken up to its first await: validation, then either the call of
\* signClientAssertion (key modes) or the token request (secret modes).
getFhirToken ==
  /\ pc = "getFhirToken"
  /\ LET e == FhirConfigError(CFG)
         mode == CFG["AUTH_MODE"]
     IN IF e # NoError
        THEN Throw(e) /\ UNCHANGED reqs
        ELSE IF mode \in {"SOF_BACKEND", "PRIVATE_KEY_JWT"}
        THEN pc' = "signClientAssertion" /\ UNCHANGED <<err, exitCode, reqs>>
        ELSE /\ reqs' = Append(reqs,
                  Request("fhirToken", TokenHeaders(CFG), TokenForm(CFG, Undefined)))
             /\ pc' = "awaitFhirToken"
             /\ UNCHANGED <<err, exitCode>>
  /\ UNCHANGED answered
  /\ UNCHANGED <<tokenResp, signing>>
  /\ UNCHANGED <<env, builderVars, CFG, caller, flowVars, resolverVars>>

\* signClientAssertion: the key file is read; reading or importing the key
\* may throw; otherwise the assertion is signed and getFhirToken goes on to
\* send the token request.
signClientAssertion ==
  /\ pc = "signClientAssertion"
  /\ \/ /\ Throw(Error("Sign"))
        /\ signing' = [read |-> TRUE, at |-> -1]
        /\ UNCHANGED reqs
     \/ \E ms \in SigningTimes :
          /\ signing' = [read |-> TRUE, at |-> ms]
          /\ reqs' = Append(reqs,
                 Request("fhirToken", TokenHeaders(CFG),
                         TokenForm(CFG, ClientAssertion(CFG["CLIENT_ID"], Audience(CFG),
                                                        CFG["KID"], ms))))
          /\ pc' = "awaitFhirToken"
          /\ UNCHANGED <<err, exitCode>>
  /\ UNCHANGED answered
  /\ UNCHANGED tokenResp
  /\ UNCHANGED <<env, builderVars, CFG, caller, flowVars, resolverVars>>

\* The error getEcrToken throws before it sends anything.
EcrConfigError(cfg) ==
  IF Missing(cfg, EcrKeys) # <<>> THEN MissingEnv(Missing(cfg, EcrKeys)) ELSE NoError

\* A check for the absent field only: an empty access_token passes.
AccessTokenAbsent(r) == r.access_token = Undefined

\* !resp.data?.access_token
AccessTokenMissing(r) == ~Truthy(r.access_token)

\* The FHIR token endpoint answers; on success runLaunchFlow calls getEcrToken,
\* which validates its settings and sends its token request.
fhirTokenResponse ==
  /\ pc = "awaitFhirToken"
  /\ \E r \in TokenResponses :
       /\ tokenResp' = r
       /\ IF ~r.ok
          THEN Throw(Error("FhirTokenHttp")) /\ UNCHANGED <<reqs, fhirToken>>
          ELSE IF AccessTokenMissing(r)
          THEN Throw(Error("TokenResponse")) /\ UNCHANGED <<reqs, fhirToken>>
          ELSE IF caller # "runLaunchFlow"
          THEN /\ fhirToken' = r.access_token
               /\ pc' = "returned"
               /\ UNCHANGED <<err, exitCode, reqs>>
          ELSE /\ fhirToken' = r.access_token
               /\ IF EcrConfigError(CFG) # NoError
                  THEN Throw(EcrConfigError(CFG)) /\ UNCHANGED reqs
                  ELSE /\ reqs' = Append(reqs, Request("ecrToken", "", ""))
                       /\ pc' = "awaitEcrToken"
                       /\ UNCHANGED <<err, exitCode>>
  /\ answered' = answered + 1
  /\ UNCHANGED signing
  /\ UNCHANGED <<env, builderVars, CFG, caller, ecrBearer, encounters, idx, warned, failed, resolverVars>>

\* ------------------------------------------------------------ launch loop
\* The loop body's test: both ids are truthy.
Eligible(enc) == Truthy(enc.id) /\ Truthy(getPatientIdFromEncounter(enc))

\* The first position at or after from whose Encounter is not skipped.
RECURSIVE FirstEligible(_, _)
FirstEligible(list, from) ==
  IF from > Len(list) THEN from
  ELSE IF Eligible(list[from]) THEN from
  ELSE FirstEligible(list, from + 1)

\* The for loop of runLaunchFlow from position from to its next await: the
\* skipped Encounters are warned about, the first eligible one is POSTed; when
\* the list is exhausted runLaunchFlow returns and main ends with status 0.
LaunchLoop(list, from, reqsNow) ==
  LET j == FirstEligible(list, from)
  IN /\ warned' = warned \o SubSeq(list, from, j - 1)
     /\ idx' = j
     /\ IF j <= Len(list)
        THEN /\ reqs' = Append(reqsNow,
                   Request("launch", list[j].id, getPatientIdFromEncounter(list[j])))
             /\ pc' = "awaitLaunch"
             /\ UNCHANGED exitCode
        ELSE /\ reqs' = reqsNow
             /\ pc' = "done"
             /\ exitCode' = 0
     /\ UNCHANGED err

\* A catch block that rethrows: a failed POST ends the loop.
AfterLaunchAbortOnFailure(ok, i) == IF ok THEN i + 1 ELSE Len(encounters) + 1

\* Where the loop goes on after the POST at position i: the try block logs
\* the answer, the catch block logs the failure, and the for statement steps.
AfterLaunch(ok, i) == i + 1

\* The launch POST answers or fails; either way the loop goes on (the catch
\* only logs).
launchResponse ==
  /\ pc = "awaitLaunch"
  /\ \E ok \in BOOLEAN :
       /\ failed' = IF ok THEN failed ELSE Append(failed, encounters[idx].id)
       /\ LaunchLoop(encounters, AfterLaunch(ok, idx), reqs)
  /\ answered' = answered + 1
  /\ UNCHANGED <<tokenResp, signing>>
  /\ UNCHANGED <<env, builderVars, CFG, caller, fhirToken, ecrBearer, encounters, resolverVars>>

\* ---------------------------------------------------------------- resolver
\* A resolver whose promise never settles for a direct caller: the list is
\* built but the caller is left waiting.
ReturnNeverSettles(list, reqsNow) ==
  /\ encounters' = list
  /\ IF caller = "runLaunchFlow"
     THEN LaunchLoop(list, 1, reqsNow)
     ELSE /\ pc' = "pending"
          /\ reqs' = reqsNow
          /\ UNCHANGED <<err, exitCode, idx, warned>>

\* A resolver returns its list: to runLaunchFlow, which starts its loop, or to
\* a direct caller.
Return(list, reqsNow) ==
  /\ encounters' = list
  /\ IF caller = "runLaunchFlow"
     THEN LaunchLoop(list, 1, reqsNow)
     ELSE /\ pc' = "returned"
          /\ reqs' = reqsNow
          /\ UNCHANGED <<err, exitCode, idx, warned>>

\* The forEach over a page's entries: every Encounter with an id is set in the
\* Map under its id.
RECURSIVE DateRangeMerge(_, _)

\* A loop that starts from an empty Map on every page: the page replaces the
\* set instead of being merged into it.
RECURSIVE EncountersOf(_, _)
EncountersOf(acc, entry) ==
  IF entry = <<>> THEN acc
  ELSE EncountersOf(
         IF Head(entry).resourceType = "Encounter" /\ Truthy(Head(entry).id)
         THEN MapSet(acc, Head(entry).id, Head(entry)) ELSE acc,
         Tail(entry))
DateRangeReplace(m, entry) == EncountersOf(<<>>, entry)

DateRangeMerge(m, entry) ==
  IF entry = <<>> THEN m
  ELSE LET res == Head(entry)
       IN DateRangeMerge(
            IF res.resourceType = "Encounter" /\ Truthy(res.id)
            THEN MapSet(m, res.id, res) ELSE m,
            Tail(entry))

\* The ids of the Encounters a page carries.
PageEncounterIds(entry) ==
  {entry[j].id : j \in {n \in 1..Len(entry) :
                          entry[n].resourceType = "Encounter" /\ Truthy(entry[n].id)}}

\* The server serves one more page of the current search.
Serve(b) ==
  /\ nServed < MaxPages
  /\ (nServed + 1 = MaxPages => ~b.next)
  /\ nServed' = nServed + 1
  /\ lastNext' = b.next
  /\ servedIds' = servedIds \cup PageEncounterIds(b.entry)

\* fetchEncountersByDateRange up to its first await: an empty Map and the
\* first search request.
StartDateRange(reqsNow) ==
  /\ strategy' = "dateRange"
  /\ encs' = <<>>
  /\ nServed' = 0
  /\ lastNext' = FALSE
  /\ servedIds' = {}
  /\ reqs' = Append(reqsNow, Request("search", "Encounter", ""))
  /\ pc' = "awaitEncounterSearch"
  /\ UNCHANGED walkVars

\* runLaunchFlow without the check of the token.
EcrBearerUnchecked(token) == <<>>

\* need({ ecrBearer }, ['ecrBearer']): the token getEcrToken returned must
\* be there.
EcrBearerMissing(token) == Missing([ecrBearer |-> token], <<"ecrBearer">>)

\* The case-reporting token endpoint answers; runLaunchFlow checks the token
\* and the two bases, then calls fetchEncountersByDateRange.
ecrTokenResponse ==
  /\ pc = "awaitEcrToken"
  /\ \E r \in TokenResponses :
       IF ~r.ok
       THEN Throw(Error("EcrTokenHttp")) /\ UNCHANGED <<reqs, ecrBearer, resolverVars>>
       ELSE /\ ecrBearer' = r.access_token
            /\ LET tokenMiss == EcrBearerMissing(r.access_token)
                   baseMiss == Missing(CFG, LaunchKeys)
               IN IF tokenMiss # <<>>
                  THEN Throw(MissingEnv(tokenMiss)) /\ UNCHANGED <<reqs, resolverVars>>
                  ELSE IF baseMiss # <<>>
                  THEN Throw(MissingEnv(baseMiss)) /\ UNCHANGED <<reqs, resolverVars>>
                  ELSE StartDateRange(reqs) /\ UNCHANGED <<err, exitCode>>
  /\ answered' = answered + 1
  /\ UNCHANGED <<tokenResp, signing>>
  /\ UNCHANGED <<env, builderVars, CFG, caller, fhirToken, encounters, idx, warned, failed>>

\* A direct call of fetchEncountersByDateRange.
fetchEncountersByDateRange ==
  /\ pc = "fetchEncountersByDateRange"
  /\ StartDateRange(reqs)
  /\ UNCHANGED answered
  /\ UNCHANGED <<tokenResp, signing>>
  /\ UNCHANGED <<env, builderVars, CFG, caller, err, exitCode, flowVars>>

\* One turn of the while (url) loop: the page is merged into the Map, then the
\* next link is followed or the Map's values are returned.
dateRangePage ==
  /\ pc = "awaitEncounterSearch"
  /\ \/ /\ Throw(Error("SearchHttp"))
        /\ UNCHANGED <<reqs, encs, nServed, lastNext, servedIds, encounters, idx, warned>>
     \/ \E b \in BundlePages(EncounterPageResources) :
          /\ Serve(b)
          /\ encs' = DateRangeMerge(encs, b.entry)
          /\ IF b.next
             THEN /\ reqs' = Append(reqs, Request("search", "Encounter", "next"))
                  /\ UNCHANGED <<pc, err, exitCode, encounters, idx, warned>>
             ELSE Return(MapValues(encs'), reqs)
  /\ answered' = answered + 1
  /\ UNCHANGED <<tokenResp, signing>>
  /\ UNCHANGED <<env, builderVars, CFG, caller, fhirToken, ecrBearer, failed, strategy, walkVars>>

\* --------------------------------------- fetchEncountersByConditionCodes
\* The Encounter ids the Conditions of a page refer to ("Encounter/<id>").
PageConditionRefIds(entry) ==
  {Segment1(entry[j].ref) :
     j \in {n \in 1..Len(entry) :
              /\ entry[n].resourceType = "Condition"
              /\ StartsWith(entry[n].ref, "Encounter")
              /\ Truthy(Segment1(entry[n].ref))}}

\* The server serves one more page of the fallback search.
Serve2(b) ==
  /\ nServed2 < MaxPages
  /\ (nServed2 + 1 = MaxPages => ~b.next)
  /\ nServed2' = nServed2 + 1

\* Pass 1's forEach over a page's entries, as in fetchEncountersByDateRange.
RECURSIVE CodesMerge(_, _)
CodesMerge(m, entry) ==
  IF entry = <<>> THEN m
  ELSE LET res == Head(entry)
       IN CodesMerge(
            IF res.resourceType = "Encounter" /\ Truthy(res.id)
            THEN MapSet(m, res.id, res) ELSE m,
            Tail(entry))

\* Pass 2's test on an entry: a Condition whose reference starts with
\* "Encounter/" and whose id (the second segment) is not yet in the Map.
CodesNeedsFetch(res, m) ==
  /\ res.resourceType = "Condition"
  /\ StartsWith(res.ref, "Encounter")
  /\ ~MapHas(m, Segment1(res.ref))

\* The first position at or after from whose entry needs a fetch.
RECURSIVE CodesFirstToFetch(_, _, _)
CodesFirstToFetch(entry, from, m) ==
  IF from > Len(entry) THEN from
  ELSE IF CodesNeedsFetch(entry[from], m) THEN from
  ELSE CodesFirstToFetch(entry, from + 1, m)

\* Pass 2's for loop over the entries of page b from position from, with the
\* Map m, up to the next await: a GET of the next Encounter to fetch, or,
\* the entries done, the page's next link, or the return.
CodesWalk(b, from, m, reqsNow) ==
  LET j == CodesFirstToFetch(b.entry, from, m)
  IN /\ encs' = m
     /\ IF j <= Len(b.entry)
        THEN /\ fetched' = WithFetch(fetched, Fetch(Segment1(b.entry[j].ref), "codesGet", FALSE))
             /\ reqs' = reqsNow
             /\ bundle' = b
             /\ pos' = j
             /\ pc' = "awaitCodesEncounterGet"
             /\ UNCHANGED <<err, exitCode, encounters, idx, warned>>
        ELSE /\ bundle' = NoBundle
             /\ pos' = 0
             /\ UNCHANGED fetched
             /\ IF b.next
                THEN /\ reqs' = Append(reqsNow, Request("search", "Condition", "next"))
                     /\ pc' = "awaitCodesConditionSearch"
                     /\ UNCHANGED <<err, exitCode, encounters, idx, warned>>
                ELSE Return(MapValues(m), reqsNow)

\* A fallback that runs whatever pass 1 collected.
CodesFallbackAlways(m) == TRUE

\* Pass 2's test: the fallback runs if pass 1 left the Map empty.
CodesNeedsFallback(m) == m = <<>>

\* fetchEncountersByConditionCodes up to its first await.
fetchEncountersByConditionCodes ==
  /\ pc = "fetchEncountersByConditionCodes"
  /\ strategy' = "codesGet"
  /\ encs' = <<>>
  /\ nServed' = 0
  /\ lastNext' = FALSE
  /\ servedIds' = {}
  /\ reqs' = Append(reqs, Request("search", "Encounter", ""))
  /\ pc' = "awaitCodesEncounterSearch"
  /\ UNCHANGED answered
  /\ UNCHANGED <<tokenResp, signing>>
  /\ UNCHANGED <<env, builderVars, CFG, caller, err, exitCode, flowVars, walkVars>>

\* One turn of pass 1's while (url) loop; after the last page the Map is
\* returned, or, if it is empty, pass 2 starts with its Condition search.
codesEncounterPage ==
  /\ pc = "awaitCodesEncounterSearch"
  /\ \/ /\ Throw(Error("SearchHttp"))
        /\ UNCHANGED <<reqs, encs, nServed, lastNext, servedIds, encounters, idx, warned>>
     \/ \E b \in BundlePages(EncounterPageResources) :
          /\ Serve(b)
          /\ encs' = CodesMerge(encs, b.entry)
          /\ IF b.next
             THEN /\ reqs' = Append(reqs, Request("search", "Encounter", "next"))
                  /\ UNCHANGED <<pc, err, exitCode, encounters, idx, warned>>
             ELSE IF CodesNeedsFallback(encs')
             THEN /\ reqs' = Append(reqs, Request("search", "Condition", ""))
                  /\ pc' = "awaitCodesConditionSearch"
                  /\ UNCHANGED <<err, exitCode, encounters, idx, warned>>
             ELSE Return(MapValues(encs'), reqs)
  /\ answered' = answered + 1
  /\ UNCHANGED <<tokenResp, signing>>
  /\ UNCHANGED <<env, builderVars, CFG, caller, fhirToken, ecrBearer, failed, strategy, walkVars>>

\* One turn of pass 2's while (url2) loop, up to its first Encounter fetch.
codesConditionPage ==
  /\ pc = "awaitCodesConditionSearch"
  /\ \/ /\ Throw(Error("SearchHttp"))
        /\ UNCHANGED <<reqs, encs, encounters, idx, warned, bundle, pos, nServed2, fetched>>
     \/ \E b \in BundlePages(ConditionPageResources) :
          /\ Serve2(b)
          /\ CodesWalk(b, 1, encs, reqs)
  /\ answered' = answered + 1
  /\ UNCHANGED <<tokenResp, signing>>
  /\ UNCHANGED <<env, builderVars, CFG, caller, fhirToken, ecrBearer, failed, strategy,
                 nServed, lastNext, servedIds, condRefIds, fallbackRefIds>>

\* The Map after GET Encounter/<id> answered with resource res: the answer
\* is stored under the id asked for.
CodesStore(m, id, res) == MapSet(m, id, res)

\* GET Encounter/<id> answers or fails.  The call is not in a try block: a
\* failure leaves the function.
codesEncounterGet ==
  /\ pc = "awaitCodesEncounterGet"
  /\ \/ /\ Throw(Error("EncounterGet"))
        /\ UNCHANGED <<reqs, encs, encounters, idx, warned, bundle, pos, fetched>>
     \/ \E res \in DirectResources :
          CodesWalk(bundle, pos + 1,
                    CodesStore(encs, Segment1(bundle.entry[pos].ref), res), reqs)
  /\ answered' = answered + 1
  /\ UNCHANGED <<tokenResp, signing>>
  /\ UNCHANGED <<env, builderVars, CFG, caller, fhirToken, ecrBearer, failed, strategy,
                 nServed, lastNext, servedIds, nServed2, condRefIds, fallbackRefIds>>

\* ----------------------------------- fetchEncountersByConditionCodesPost
\* harvestEncounters(b): every Encounter with an id among the entries is set
\* in the Map under its id.
RECURSIVE harvestEncounters(_, _)
harvestEncounters(m, entry) ==
  IF entry = <<>> THEN m
  ELSE LET res == Head(entry)
       IN harvestEncounters(
            IF res.resourceType = "Encounter" /\ Truthy(res.id)
            THEN MapSet(m, res.id, res) ELSE m,
            Tail(entry))

\* encounterRefs: the references of the first page's Conditions that are
\* strings starting with "Encounter/".  (A response that is no Bundle or has
\* no entry array skips the block, as an empty entry array does.)
encounterRefs(entry) ==
  LET conditions == SelectSeq(entry, LAMBDA res : res.resourceType = "Condition")
      refs == [j \in 1..Len(conditions) |-> conditions[j].ref]
  IN SelectSeq(refs, LAMBDA ref : StartsWith(ref, "Encounter"))

\* The first position at or after from of a reference the loop fetches: its
\* id is not empty and not in the Map.
RECURSIVE PostFirstToFetch(_, _, _)
PostFirstToFetch(refs, from, m) ==
  IF from > Len(refs) THEN from
  ELSE IF Truthy(Segment1(refs[from])) /\ ~MapHas(m, Segment1(refs[from])) THEN from
  ELSE PostFirstToFetch(refs, from + 1, m)

\* Step 3's test: the fallback runs if the Map is still empty.
PostNeedsFallback(m) == m = <<>>

\* After the last page of the first search: the fallback search without
\* includes if no Encounter was collected, the return otherwise.
PostFallbackOrReturn(m, reqsNow) ==
  /\ encs' = m
  /\ bundle' = NoBundle
  /\ pos' = 0
  /\ UNCHANGED fetched
  /\ IF PostNeedsFallback(m)
     THEN /\ reqs' = Append(reqsNow, Request("search", "Condition", "fallback"))
          /\ pc' = "awaitPostFallbackSearch"
          /\ UNCHANGED <<err, exitCode, encounters, idx, warned>>
     ELSE Return(MapValues(m), reqsNow)

\* The for loop over the first page's encounterRefs from position from, with
\* the Map m, up to the next await: the GET of the next reference to fetch;
\* or, the references done, harvestEncounters(bundle) and then the next link,
\* the fallback or the return.  delivered are the ids of the Encounters the
\* search has delivered by inclusion; the request is marked when its id is
\* one of them.
PostWalk(b, from, m, reqsNow, delivered) ==
  LET refs == encounterRefs(b.entry)
      j == PostFirstToFetch(refs, from, m)
  IN IF j <= Len(refs)
     THEN /\ fetched' = WithFetch(fetched,
                Fetch(Segment1(refs[j]), "first page", Segment1(refs[j]) \in delivered))
          /\ reqs' = reqsNow
          /\ encs' = m
          /\ bundle' = b
          /\ pos' = j
          /\ pc' = "awaitPostDirectGet"
          /\ UNCHANGED <<err, exitCode, encounters, idx, warned>>
     ELSE IF b.next
     THEN /\ reqs' = Append(reqsNow, Request("search", "Condition", "next"))
          /\ encs' = harvestEncounters(m, b.entry)
          /\ bundle' = NoBundle
          /\ pos' = 0
          /\ pc' = "awaitPostNextPage"
          /\ UNCHANGED <<err, exitCode, encounters, idx, warned, fetched>>
     ELSE PostFallbackOrReturn(harvestEncounters(m, b.entry), reqsNow)

\* fetchEncountersByConditionCodesPost up to its first await: the Map and the
\* POST of the search with its _include directives.
fetchEncountersByConditionCodesPost ==
  /\ pc = "fetchEncountersByConditionCodesPost"
  /\ strategy' = "codesPost"
  /\ encs' = <<>>
  /\ nServed' = 0
  /\ lastNext' = FALSE
  /\ servedIds' = {}
  /\ reqs' = Append(reqs, Request("search", "Condition", "include"))
  /\ pc' = "awaitPostSearch"
  /\ UNCHANGED answered
  /\ UNCHANGED <<tokenResp, signing>>
  /\ UNCHANGED <<env, builderVars, CFG, caller, err, exitCode, flowVars, walkVars>>

\* The first page arrives: its Conditions' references are walked.
postFirstPage ==
  /\ pc = "awaitPostSearch"
  /\ \/ /\ Throw(Error("SearchHttp"))
        /\ UNCHANGED <<reqs, encs, nServed, lastNext, servedIds, encounters, idx,
                       warned, bundle, pos, condRefIds, fetched>>
     \/ \E b \in BundlePages(PostPageResources) :
          /\ Serve(b)
          /\ condRefIds' = condRefIds \cup PageConditionRefIds(b.entry)
          /\ PostWalk(b, 1, encs, reqs, servedIds \cup PageEncounterIds(b.entry))
  /\ answered' = answered + 1
  /\ UNCHANGED <<tokenResp, signing>>
  /\ UNCHANGED <<env, builderVars, CFG, caller, fhirToken, ecrBearer, failed, strategy, nServed2,
                 fallbackRefIds>>

\* What a direct GET's answer adds to the Map: an Encounter with an id, under
\* that id; anything else is logged and dropped.
PostStore(m, res) ==
  IF res.resourceType = "Encounter" /\ Truthy(res.id) THEN MapSet(m, res.id, res) ELSE m

\* A first-page GET Encounter/<id> answers or fails (the failure is caught
\* and logged); the walk goes on.
postDirectGet ==
  /\ pc = "awaitPostDirectGet"
  /\ \/ PostWalk(bundle, pos + 1, encs, reqs, servedIds)
     \/ \E res \in DirectResources :
          PostWalk(bundle, pos + 1, PostStore(encs, res), reqs, servedIds)
  /\ answered' = answered + 1
  /\ UNCHANGED <<tokenResp, signing>>
  /\ UNCHANGED <<env, builderVars, CFG, caller, fhirToken, ecrBearer, failed, strategy,
                 nServed, lastNext, servedIds, nServed2, condRefIds, fallbackRefIds>>

\* A page reached by a next link arrives: its Encounters are harvested.
postNextPage ==
  /\ pc = "awaitPostNextPage"
  /\ \/ /\ Throw(Error("SearchHttp"))
        /\ UNCHANGED <<reqs, encs, nServed, lastNext, servedIds, encounters, idx,
                       warned, bundle, pos, condRefIds, fetched>>
     \/ \E b \in BundlePages(PostPageResources) :
          /\ Serve(b)
          /\ condRefIds' = condRefIds \cup PageConditionRefIds(b.entry)
          /\ IF b.next
             THEN /\ reqs' = Append(reqs, Request("search", "Condition", "next"))
                  /\ encs' = harvestEncounters(encs, b.entry)
                  /\ UNCHANGED <<pc, err, exitCode, encounters, idx, warned, bundle, pos,
                                 fetched>>
             ELSE PostFallbackOrReturn(harvestEncounters(encs, b.entry), reqs)
  /\ answered' = answered + 1
  /\ UNCHANGED <<tokenResp, signing>>
  /\ UNCHANGED <<env, builderVars, CFG, caller, fhirToken, ecrBearer, failed, strategy, nServed2,
                 fallbackRefIds>>

\* fetchEncounterByRef's tests on a fallback page's entry: a Condition whose
\* reference starts with "Encounter/" and whose id is not empty and not in
\* the Map.
FallbackNeedsFetch(res, m) ==
  /\ res.resourceType = "Condition"
  /\ StartsWith(res.ref, "Encounter")
  /\ Truthy(Segment1(res.ref))
  /\ ~MapHas(m, Segment1(res.ref))

RECURSIVE FallbackFirstToFetch(_, _, _)
FallbackFirstToFetch(entry, from, m) ==
  IF from > Len(entry) THEN from
  ELSE IF FallbackNeedsFetch(entry[from], m) THEN from
  ELSE FallbackFirstToFetch(entry, from + 1, m)

\* processBundleConditions from position from up to the next await, then the
\* next2 link or the return.
FallbackWalk(b, from, m, reqsNow) ==
  LET j == FallbackFirstToFetch(b.entry, from, m)
  IN /\ encs' = m
     /\ IF j <= Len(b.entry)
        THEN /\ fetched' = WithFetch(fetched, Fetch(Segment1(b.entry[j].ref), "fallback", FALSE))
             /\ reqs' = reqsNow
             /\ bundle' = b
             /\ pos' = j
             /\ pc' = "awaitPostFallbackGet"
             /\ UNCHANGED <<err, exitCode, encounters, idx, warned>>
        ELSE /\ bundle' = NoBundle
             /\ pos' = 0
             /\ UNCHANGED fetched
             /\ IF b.next
                THEN /\ reqs' = Append(reqsNow, Request("search", "Condition", "fallback next"))
                     /\ pc' = "awaitPostFallbackSearch"
                     /\ UNCHANGED <<err, exitCode, encounters, idx, warned>>
                ELSE Return(MapValues(m), reqsNow)

\* A page of the fallback search arrives.
postFallbackPage ==
  /\ pc = "awaitPostFallbackSearch"
  /\ \/ /\ Throw(Error("SearchHttp"))
        /\ UNCHANGED <<reqs, encs, encounters, idx, warned, bundle, pos, nServed2, fetched,
                       fallbackRefIds>>
     \/ \E b \in BundlePages(ConditionPageResources) :
          /\ Serve2(b)
          /\ fallbackRefIds' = fallbackRefIds \cup PageConditionRefIds(b.entry)
          /\ FallbackWalk(b, 1, encs, reqs)
  /\ answered' = answered + 1
  /\ UNCHANGED <<tokenResp, signing>>
  /\ UNCHANGED <<env, builderVars, CFG, caller, fhirToken, ecrBearer, failed, strategy,
                 nServed, lastNext, servedIds, condRefIds>>

\* A fallback GET Encounter/<id> answers or fails (.catch(() => null)).
postFallbackGet ==
  /\ pc = "awaitPostFallbackGet"
  /\ \/ FallbackWalk(bundle, pos + 1, encs, reqs)
     \/ \E res \in DirectResources :
          FallbackWalk(bundle, pos + 1, PostStore(encs, res), reqs)
  /\ answered' = answered + 1
  /\ UNCHANGED <<tokenResp, signing>>
  /\ UNCHANGED <<env, builderVars, CFG, caller, fhirToken, ecrBearer, failed, strategy,
                 nServed, lastNext, servedIds, nServed2, condRefIds, fallbackRefIds>>

\* ------------------------------------------------ buildNotificationBundle
\* A string that the code splits or tests for a prefix is kept as its
\* segments: "Encounter/123" is <<"Encounter", "123">>, "123" is <<"123">>,
\* the empty string is <<"">>; the absent id is the empty sequence.
NoId == <<>>
\* JS truthiness of such an id: neither undefined nor the empty string.
IdTruthy(id) == id # NoId /\ id # <<"">>

\* An option given as a number, given as a string of digits, or not given.
JsNumber(n) == [t |-> "number", n |-> n]
JsString(n) == [t |-> "string", n |-> n]
NotGiven == [t |-> "undefined", n |-> 0]
\* A destructured option with its default value.
WithDefault(v, d) == IF v = NotGiven THEN d ELSE v
\* Number(v) of a number or of a string of digits.
ToNumber(v) == v.n

\* The options argument left out: every option is undefined.
NoOptions ==
  [subscriptionUrl |-> Undefined, topicCanonical |-> Undefined,
   eventsSinceStart |-> NotGiven, eventsInNotification |-> NotGiven]

\* The second entry's fullUrl with the prefix always put in front.
FullUrlAlwaysPrefixed(enc) ==
  <<"Encounter">> \o (IF IdTruthy(enc.id) THEN enc.id ELSE <<"unknown">>)

\* The second entry's fullUrl: the id itself if it starts with "Encounter/",
\* else "Encounter/" and the id, or "unknown" for a missing or empty id.
FullUrl(enc) ==
  IF enc.id # NoId /\ StartsWith(enc.id, "Encounter")
  THEN enc.id
  ELSE <<"Encounter">> \o (IF IdTruthy(enc.id) THEN enc.id ELSE <<"unknown">>)

\* The Bundle buildNotificationBundle(enc, opts) returns when
\* crypto.randomUUID() yields uuid and the clock reads nowIso.
NotificationBundle(enc, opts, uuid, nowIso) ==
  LET subscriptionUrl ==
        IF opts.subscriptionUrl = Undefined
        THEN "http://ecr.drajer.com/secure/fhir-r4/fhir/Subscription/encounter-end"
        ELSE opts.subscriptionUrl
      topicCanonical ==
        IF opts.topicCanonical = Undefined
        THEN "http://hl7.org/fhir/us/medmorph/SubscriptionTopic/encounter-end"
        ELSE opts.topicCanonical
      eventsSinceStart == WithDefault(opts.eventsSinceStart, JsNumber(1))
      eventsInNotification == WithDefault(opts.eventsInNotification, JsNumber(1))
      paramsUrn == <<"urn", "uuid", uuid>>
  IN [resourceType |-> "Bundle",
      id |-> "notification-full-resource",
      meta |-> [lastUpdated |-> nowIso,
                profile |-> <<"http://hl7.org/fhir/uv/subscriptions-backport/StructureDefinition/backport-subscription-notification">>],
      type |-> "history",
      timestamp |-> nowIso,
      entry |->
        << [fullUrl |-> paramsUrn,
            resource |->
              [resourceType |-> "Parameters",
               id |-> paramsUrn[Len(paramsUrn)],
               meta |-> [lastUpdated |-> nowIso,
                         profile |-> <<"http://hl7.org/fhir/uv/subscriptions-backport/StructureDefinition/backport-subscriptionstatus">>],
               parameter |->
                 << Pair("subscription", [reference |-> subscriptionUrl]),
                    Pair("topic", topicCanonical),
                    Pair("type", "event-notification"),
                    Pair("status", "active"),
                    Pair("events-since-subscription-start", ToNumber(eventsSinceStart)),
                    Pair("events-in-notification", ToNumber(eventsInNotification)) >>],
            request |-> [method |-> "GET", url |-> <<subscriptionUrl, "$status">>],
            response |-> [status |-> "200"]],
           [fullUrl |-> FullUrl(enc),
            resource |-> enc] >>]

\* The Encounters the builder is given: with an id that is absent, empty,
\* plain, or already a reference.
BuilderEncounters ==
  {[resourceType |-> "Encounter", id |-> i, ref |-> r] :
     i \in {NoId, <<"">>, <<"123">>, <<"1">>, <<"Encounter", "123">>, <<"Encounter", "">>},
     r \in {NoRef, <<"Patient", "p1">>}}

\* The options the builder is given.
BuilderOptions ==
  [subscriptionUrl : {Undefined, "http://sub"},
   topicCanonical : {Undefined, "http://topic"},
   eventsSinceStart : {NotGiven, JsNumber(2), JsString(3)},
   eventsInNotification : {NotGiven, JsNumber(2), JsString(3)}]

\* buildNotificationBundle(encounter, bundleOptions)
buildNotificationBundle ==
  /\ pc = "buildNotificationBundle"
  /\ \E uuid \in {"u1", "u2"} :
       notification' = NotificationBundle(encounter, bundleOptions, uuid, "now")
  /\ pc' = "returned"
  /\ UNCHANGED <<encounter, bundleOptions, env, answered, tokenResp, signing, CFG, caller,
                 err, exitCode, reqs, flowVars, resolverVars>>

\* ------------------------------------------------------------ the program
\* The state when the thread starts at entry with a configuration of cfgs.
Start(entry, cfgs, envs, who) ==
  /\ pc = entry
  /\ \E base \in cfgs, e \in envs :
       /\ env = WithFlow(e, base["FLOW_MODE"])
       /\ CFG = Load(base, env)
  /\ answered = 0
  /\ tokenResp = NoResponse
  /\ signing = NotSigned
  /\ encounter = Undefined
  /\ bundleOptions = Undefined
  /\ notification = Undefined
  /\ caller = who
  /\ err = NoError
  /\ exitCode = -1
  /\ reqs = <<>>
  /\ fhirToken = Undefined
  /\ ecrBearer = Undefined
  /\ encs = <<>>
  /\ nServed = 0
  /\ lastNext = FALSE
  /\ servedIds = {}
  /\ encounters = <<>>
  /\ idx = 0
  /\ warned = <<>>
  /\ failed = <<>>
  /\ strategy = "none"
  /\ bundle = NoBundle
  /\ pos = 0
  /\ nServed2 = 0
  /\ condRefIds = {}
  /\ fallbackRefIds = {}
  /\ fetched = EmptyBag

\* The script is loaded with some configuration.
InitFlow ==
  Start("main", ConfigsOver(EnvKeys, SetOrUnset, FlowModes), {NoFormEnv}, "runLaunchFlow")

Init == InitFlow

\* getFhirToken called on its own, over every combination of unset, blank
\* and set values of the settings it reads.
InitToken ==
  Start("getFhirToken", ConfigsOver(FhirKeys, SettingValues, {"launch"}), {NoFormEnv},
        "direct")

NextToken ==
  \/ getFhirToken
  \/ signClientAssertion
  \/ fhirTokenResponse

SpecToken == InitToken /\ [][NextToken]_vars

\* getFhirToken called on its own, over every combination of set and unset
\* values of the settings it reads and every environment of the three
\* converted settings.
InitForm ==
  Start("getFhirToken", ConfigsOver(FhirKeys, SetOrUnset, {"launch"}), FormEnvs, "direct")

SpecForm == InitForm /\ [][NextToken]_vars

\* A resolver called on its own by one of its three entry points.
ResolverEntries ==
  {"fetchEncountersByDateRange", "fetchEncountersByConditionCodes",
   "fetchEncountersByConditionCodesPost"}

\* The resolvers read no setting: one complete configuration stands for all.
ResolverConfigs ==
  {c \in ConfigsOver({}, {"v"}, {"launch"}) :
     c["AUTH_MODE"] = "SOF_BACKEND" /\ c["ECRNOW_API_BASE"] = "v"}

InitResolver ==
  \E entry \in ResolverEntries :
    Start(entry, ResolverConfigs, {NoFormEnv}, "direct")

NextResolver ==
  \/ fetchEncountersByDateRange
  \/ dateRangePage
  \/ fetchEncountersByConditionCodes
  \/ codesEncounterPage
  \/ codesConditionPage
  \/ codesEncounterGet
  \/ fetchEncountersByConditionCodesPost
  \/ postFirstPage
  \/ postDirectGet
  \/ postNextPage
  \/ postFallbackPage
  \/ postFallbackGet

SpecResolver == InitResolver /\ [][NextResolver]_vars

\* A resolver called directly, where every request the resolver awaits is
\* eventually answered or fails.  The chain of next links is finite: Serve and
\* Serve2 serve at most MaxPages pages of a search and the last has no next
\* link.
SpecResolverFair == SpecResolver /\ WF_vars(NextResolver)

Next ==
  \/ main
  \/ runNotifyFlow
  \/ getFhirToken
  \/ signClientAssertion
  \/ fhirTokenResponse
  \/ ecrTokenResponse
  \/ dateRangePage
  \/ launchResponse

\* One run of the script, from module load to process exit.
Spec == Init /\ [][Next]_vars

\* buildNotificationBundle called on its own, with or without options.
InitBundle ==
  /\ pc = "buildNotificationBundle"
  /\ encounter \in BuilderEncounters
  /\ bundleOptions \in BuilderOptions
  /\ notification = Undefined
  /\ env = WithFlow(NoFormEnv, "launch")
  /\ \E base \in ResolverConfigs : CFG = Load(base, env)
  /\ caller = "direct"
  /\ err = NoError
  /\ exitCode = -1
  /\ reqs = <<>>
  /\ answered = 0
  /\ tokenResp = NoResponse
  /\ signing = NotSigned
  /\ fhirToken = Undefined
  /\ ecrBearer = Undefined
  /\ encs = <<>>
  /\ nServed = 0
  /\ lastNext = FALSE
  /\ servedIds = {}
  /\ encounters = <<>>
  /\ idx = 0
  /\ warned = <<>>
  /\ failed = <<>>
  /\ strategy = "none"
  /\ bundle = NoBundle
  /\ pos = 0
  /\ nServed2 = 0
  /\ condRefIds = {}
  /\ fallbackRefIds = {}
  /\ fetched = EmptyBag

NextBundle == buildNotificationBundle

SpecBundle == InitBundle /\ [][NextBundle]_vars

\* Every entry point: the script's run and the three resolvers called on
\* their own.
InitEntryPoints ==
  \/ Start("main", ConfigsOver(EnvKeys, SetOrUnset, {"launch", "notify"}), {NoFormEnv},
           "runLaunchFlow")
  \/ InitResolver

NextEntryPoints ==
  \/ main
  \/ runNotifyFlow
  \/ getFhirToken
  \/ signClientAssertion
  \/ fhirTokenResponse
  \/ ecrTokenResponse
  \/ launchResponse
  \/ NextResolver

SpecEntryPoints == InitEntryPoints /\ [][NextEntryPoints]_vars

\* ================================================================ claims
\* The settings among keys that are unset, empty or blank in cfg.
MissingSet(cfg, keys) == {key \in Range(keys) : cfg[key] \in {Undefined, "", Blank}}

\* The requests of one kind, in the order they were issued.
RequestsOf(kind) == SelectSeq(reqs, LAMBDA r : r.kind = kind)

NoDuplicates(s) == \A i, j \in 1..Len(s) : s[i] = s[j] => i = j

\* ---- C1 -----------------------------------------------------------------
\* C1 as stated: whenever getFhirToken fails with a missing-settings error,
\* the message lists every missing setting the mode requires (the base ones
\* and the mode's own), and only those, and no request has been issued.
C1_ListsAllMissing ==
  (pc = "threw" /\ err.kind = "MissingEnv") =>
    /\ reqs = <<>>
    /\ Range(err.miss) =
         MissingSet(CFG, BaseKeys) \cup
           (IF CFG["AUTH_MODE"] \in SupportedModes
            THEN MissingSet(CFG, ModeKeys(CFG["AUTH_MODE"])) ELSE {})

\* C1 amended: getFhirToken validates in two stages.  If any of TOKEN_URL,
\* CLIENT_ID, FHIR_BASE is missing or blank it fails listing exactly the
\* missing ones of these three; otherwise, in a supported mode, if any of the
\* mode's own settings is missing or blank it fails listing exactly those.  In
\* both cases no HTTP request has been issued, and a call with any such
\* setting missing never gets past validation.
C1_ListsMissingOfFirstFailingStage ==
  LET base == MissingSet(CFG, BaseKeys)
      mode == CFG["AUTH_MODE"]
      own == IF mode \in SupportedModes THEN MissingSet(CFG, ModeKeys(mode)) ELSE {}
  IN /\ (pc = "threw" /\ err.kind = "MissingEnv") =>
          /\ reqs = <<>>
          /\ NoDuplicates(err.miss)
          /\ Range(err.miss) = (IF base # {} THEN base ELSE own)
     /\ (pc # "getFhirToken" /\ base \cup own # {}) =>
          /\ pc = "threw"
          /\ err.kind = "MissingEnv"
          /\ reqs = <<>>

\* getFhirToken has failed in SOF_BACKEND mode with a blank TOKEN_URL and an
\* unset KID: both stages have something missing.
C1_Witness ==
  /\ pc = "threw"
  /\ err.kind = "MissingEnv"
  /\ CFG["AUTH_MODE"] = "SOF_BACKEND"
  /\ CFG["TOKEN_URL"] = Blank
  /\ CFG["KID"] = Undefined
  /\ err.miss = <<"TOKEN_URL">>

\* ---- C2 -----------------------------------------------------------------
\* C2: a launch run that ends with a missing-setting error has issued no HTTP
\* request.
C2_ConfigErrorBeforeAnyRequest ==
  (pc = "done" /\ err.kind = "MissingEnv" /\ err.miss # <<"ecrBearer">>) => reqs = <<>>

\* ---- C3 -----------------------------------------------------------------
Rank(kind) ==
  CASE kind = "fhirToken" -> 1
    [] kind = "ecrToken" -> 2
    [] kind = "search" -> 3
    [] kind = "launch" -> 4
    [] OTHER -> 5

\* C3: the requests of a launch run are issued in the order FHIR token,
\* case-reporting token, Encounter search, launch POSTs; a search or launch
\* request is only ever issued after both token requests, with a FHIR token
\* and a non-empty case-reporting token in hand; and a run that failed in
\* either token acquisition, or on an absent or empty case-reporting token,
\* has issued no search and no launch request.
C3_TokensBeforeSearchAndLaunch ==
  /\ \A i, j \in 1..Len(reqs) : i < j => Rank(reqs[i].kind) <= Rank(reqs[j].kind)
  /\ Len(RequestsOf("fhirToken")) <= 1
  /\ Len(RequestsOf("ecrToken")) <= 1
  /\ (RequestsOf("search") # <<>> \/ RequestsOf("launch") # <<>>) =>
       /\ Len(reqs) >= 3
       /\ reqs[1].kind = "fhirToken"
       /\ reqs[2].kind = "ecrToken"
       /\ fhirToken \notin {Undefined, ""}
       /\ ecrBearer \notin {Undefined, "", Blank}
  /\ (RequestsOf("launch") # <<>>) => RequestsOf("search") # <<>>
  /\ (err.kind \in {"Sign", "FhirTokenHttp", "TokenResponse", "EcrTokenHttp"}
        \/ err = MissingEnv(<<"ecrBearer">>)) =>
       /\ pc = "done"
       /\ exitCode = 1
       /\ RequestsOf("search") = <<>>
       /\ RequestsOf("launch") = <<>>

\* The case-reporting token endpoint answered without an access_token: the
\* run has ended after the two token requests.
C3_Witness ==
  /\ pc = "done"
  /\ err = MissingEnv(<<"ecrBearer">>)
  /\ ecrBearer = Undefined
  /\ Len(reqs) = 2

\* ---- C4 -----------------------------------------------------------------
\* An Encounter with a non-empty id and a subject reference Patient/<id>.
HasBothIds(enc) ==
  /\ enc.id \notin {Undefined, ""}
  /\ Len(enc.ref) >= 2
  /\ enc.ref[1] = "Patient"
  /\ enc.ref[2] # ""

\* C4: once the resolver has returned, every launch POST issued is the one of
\* an Encounter of the list at or before the loop's position that has both
\* ids, and carries its ids; each such Encounter before the position has
\* exactly one POST; an Encounter lacking either id has none and has been
\* warned about.
C4_OnePostPerEncounterWithBothIds ==
  (pc \in {"awaitLaunch", "done"} /\ err = NoError /\ CFG["FLOW_MODE"] = "launch") =>
    LET posts == RequestsOf("launch")
        upto == IF pc = "done" THEN Len(encounters) ELSE idx
    IN /\ \A n \in 1..upto :
            LET enc == encounters[n]
                mine == SelectSeq(posts, LAMBDA r : r.a = enc.id)
            IN IF HasBothIds(enc)
               THEN Len(mine) = 1 /\ mine[1].b = enc.ref[2]
               ELSE /\ mine = <<>>
                    /\ \E w \in 1..Len(warned) : warned[w] = enc
       /\ \A q \in 1..Len(posts) :
            \E n \in 1..upto : HasBothIds(encounters[n]) /\ encounters[n].id = posts[q].a
       /\ \A w \in 1..Len(warned) : ~HasBothIds(warned[w])

\* The search returned Encounters 1 (with a Patient reference) and 2
\* (without): the run is over with one POST, for 1, and a warning for 2.
C4_Witness ==
  /\ pc = "done"
  /\ err = NoError
  /\ Len(encounters) = 2
  /\ encounters[1].id = "1"
  /\ encounters[2].id = "2"
  /\ RequestsOf("launch") = <<Request("launch", "1", "p1")>>
  /\ Len(warned) = 1
  /\ warned[1].id = "2"

\* ---- C5 -----------------------------------------------------------------
\* The ids of the Encounters of a list that get a launch POST.
EligibleIds(list) == {list[n].id : n \in {m \in 1..Len(list) : HasBothIds(list[m])}}

\* C5: whatever launch POSTs failed, a run whose resolver returned ends with
\* status 0 and no error, having attempted a POST for every eligible
\* Encounter exactly once (no retry); every failure recorded is one of these
\* POSTs.
C5_FailedPostDoesNotStopTheRun ==
  /\ (pc = "done" /\ RequestsOf("search") # <<>> /\ err.kind # "SearchHttp") =>
       /\ exitCode = 0
       /\ err = NoError
       /\ {r.a : r \in Range(RequestsOf("launch"))} = EligibleIds(encounters)
       /\ Len(RequestsOf("launch")) = Cardinality(EligibleIds(encounters))
  /\ \A n \in 1..Len(failed) : \E q \in 1..Len(RequestsOf("launch")) :
       RequestsOf("launch")[q].a = failed[n]
  /\ Len(failed) <= Len(RequestsOf("launch"))

\* The first of two launch POSTs failed and the second was still issued; the
\* run has ended.
C5_Witness ==
  /\ pc = "done"
  /\ exitCode = 0
  /\ Len(RequestsOf("launch")) = 2
  /\ failed = <<RequestsOf("launch")[1].a>>

\* ---- C6 -----------------------------------------------------------------
\* C6: the sequence a resolver returns holds at most one Encounter per
\* resource id.
C6_OneEncounterPerId ==
  (pc = "returned") =>
    \A i, j \in 1..Len(encounters) :
      (/\ encounters[i].resourceType = "Encounter"
       /\ encounters[j].resourceType = "Encounter"
       /\ encounters[i].id = encounters[j].id) => i = j

\* ---- C7 -----------------------------------------------------------------
\* C7: in the POST strategy no GET Encounter/<id> is issued for an id the
\* search response has delivered by inclusion, and no id is fetched directly
\* more than once.
C7_IncludedNeverFetched ==
  (strategy = "codesPost") =>
    \A f \in BagToSet(fetched) :
      /\ ~f.included
      /\ \A g \in BagToSet(fetched) : g.id = f.id => g = f
      /\ CopiesIn(f, fetched) = 1

\* ---- C8 -----------------------------------------------------------------
\* C8: when the POST strategy returns, every Encounter id that a Condition on
\* any page of the search refers to, and that no page delivered by inclusion,
\* has been fetched directly.
C8_EveryUnsatisfiedReferenceFetched ==
  (pc = "returned" /\ strategy = "codesPost") =>
    \A id \in condRefIds \ servedIds : \E f \in BagToSet(fetched) : f.id = id

\* ---- C9 -----------------------------------------------------------------
\* The requests of a search on a resource type, the first and the next ones.
SearchRequests(type) == SelectSeq(reqs, LAMBDA r : r.kind = "search" /\ r.a = type)

\* The ids of the resources of a list.
IdsOf(list) == {list[n].id : n \in 1..Len(list)}

\* 1 if a search request is unanswered, or was answered by a failure.
Unserved(awaiting) ==
  IF pc \in awaiting \/ err.kind = "SearchHttp" THEN 1 ELSE 0

\* C9: a search is one request per page served, the last page being the one
\* without next link; every Encounter of every page served so far is in the
\* Map (pages are merged, nothing is dropped), and the date-range resolver and
\* pass 1 of the condition-code resolver return exactly the union of the
\* pages' Encounters, one element per id.
C9_OneRequestPerPageAndUnionReturned ==
  /\ (strategy = "dateRange") =>
       /\ Len(SearchRequests("Encounter")) = nServed + Unserved({"awaitEncounterSearch"})
       /\ MapKeys(encs) = servedIds
       /\ (pc = "awaitEncounterSearch" /\ nServed > 0) => lastNext
       /\ (pc \in {"returned", "awaitLaunch", "done"} /\ err = NoError) =>
            /\ ~lastNext
            /\ nServed >= 1
            /\ IdsOf(encounters) = servedIds
            /\ Len(encounters) = Cardinality(servedIds)
  /\ (strategy = "codesGet") =>
       /\ Len(SearchRequests("Encounter")) =
            nServed + (IF SearchRequests("Condition") = <<>>
                       THEN Unserved({"awaitCodesEncounterSearch"}) ELSE 0)
       /\ servedIds \subseteq MapKeys(encs)
       /\ (pc = "awaitCodesEncounterSearch") =>
            /\ MapKeys(encs) = servedIds
            /\ nServed > 0 => lastNext
       /\ (pc = "returned" /\ servedIds # {}) =>
            /\ ~lastNext
            /\ IdsOf(encounters) = servedIds
            /\ Len(encounters) = Cardinality(servedIds)
            /\ SearchRequests("Condition") = <<>>
  /\ (strategy = "codesPost") =>
       /\ Len(SearchRequests("Condition")) =
            nServed + nServed2 +
              Unserved({"awaitPostSearch", "awaitPostNextPage", "awaitPostFallbackSearch"})
       /\ (pc = "returned") => (~lastNext /\ servedIds \subseteq IdsOf(encounters))

\* The date-range resolver has returned after two or more pages that carried
\* Encounters 1 and 2 between them.
C9_Witness ==
  /\ pc = "returned"
  /\ strategy = "dateRange"
  /\ nServed >= 2
  /\ Len(SearchRequests("Encounter")) = nServed
  /\ IdsOf(encounters) = {"1", "2"}

\* ---- C10 ----------------------------------------------------------------
\* C10: a failed GET Encounter/<id> never makes a resolver fail.
C10_FailedFetchIsNotFatal ==
  ~(pc = "threw" /\ err.kind = "EncounterGet")

\* ---- C11 ----------------------------------------------------------------
\* How many parameters (or headers) of a list have a name.
ParamCount(ps, name) == Cardinality({j \in 1..Len(ps) : ps[j].name = name})
\* The value of the first parameter (or header) with a name.
ParamOf(ps, name) == ps[CHOOSE j \in 1..Len(ps) : ps[j].name = name].v

\* The settings the mode requires are all set.
CompleteFor(cfg) ==
  /\ cfg["AUTH_MODE"] \in SupportedModes
  /\ MissingSet(cfg, BaseKeys) = {}
  /\ MissingSet(cfg, ModeKeys(cfg["AUTH_MODE"])) = {}

\* C11: with complete settings getFhirToken sends one token request (unless
\* the signing failed), and a token request is only sent with complete
\* settings.  The request has an Authorization header, Basic with the
\* encoded client id and secret, if and only if the mode is
\* CLIENT_SECRET_BASIC; it has the form fields client_assertion and
\* client_assertion_type (once each) if and only if the mode is SOF_BACKEND or
\* PRIVATE_KEY_JWT; it has the form field client_secret, the configured
\* secret, if and only if the mode is CLIENT_SECRET_POST.
C11_ModeCorrectTokenRequest ==
  LET mode == CFG["AUTH_MODE"]
      sent == RequestsOf("fhirToken")
  IN /\ (CompleteFor(CFG) /\ pc \notin {"getFhirToken", "signClientAssertion"}
           /\ err.kind # "Sign") => Len(sent) = 1
     /\ sent # <<>> => CompleteFor(CFG)
     /\ \A q \in 1..Len(sent) :
          LET headers == sent[q].a
              form == sent[q].b
          IN /\ ParamCount(headers, "Authorization") =
                  (IF mode = "CLIENT_SECRET_BASIC" THEN 1 ELSE 0)
             /\ mode = "CLIENT_SECRET_BASIC" =>
                  ParamOf(headers, "Authorization") =
                    <<"Basic", <<"base64", CFG["CLIENT_ID"], ":", CFG["CLIENT_SECRET"]>>>>
             /\ ParamCount(form, "client_assertion") =
                  (IF mode \in {"SOF_BACKEND", "PRIVATE_KEY_JWT"} THEN 1 ELSE 0)
             /\ ParamCount(form, "client_assertion_type") =
                  (IF mode \in {"SOF_BACKEND", "PRIVATE_KEY_JWT"} THEN 1 ELSE 0)
             /\ mode \in {"SOF_BACKEND", "PRIVATE_KEY_JWT"} =>
                  /\ ParamOf(form, "client_assertion_type") =
                       "urn:ietf:params:oauth:client-assertion-type:jwt-bearer"
                  /\ ParamOf(form, "client_assertion").header.kid = CFG["KID"]
             /\ ParamCount(form, "client_secret") =
                  (IF mode = "CLIENT_SECRET_POST" THEN 1 ELSE 0)
             /\ mode = "CLIENT_SECRET_POST" =>
                  ParamOf(form, "client_secret") = CFG["CLIENT_SECRET"]

\* A token request was sent in CLIENT_SECRET_BASIC mode: it has the Basic
\* header and neither a client_secret nor a client_assertion field.
C11_Witness ==
  /\ CFG["AUTH_MODE"] = "CLIENT_SECRET_BASIC"
  /\ Len(RequestsOf("fhirToken")) = 1
  /\ ParamCount(RequestsOf("fhirToken")[1].a, "Authorization") = 1
  /\ ParamCount(RequestsOf("fhirToken")[1].b, "client_secret") = 0
  /\ ParamCount(RequestsOf("fhirToken")[1].b, "client_assertion") = 0

\* ---- C12 ----------------------------------------------------------------
\* C12: the process has an exit status only once the run is over; the status
\* is 1 if an error reached main's catch and 0 otherwise.  In particular a
\* notify run, and a launch run in which only launch POSTs failed, end with
\* status 0.
C12_NonZeroExitIffErrorEscapes ==
  /\ pc # "done" => (exitCode = -1 /\ err = NoError)
  /\ pc = "done" =>
       /\ exitCode \in {0, 1}
       /\ (exitCode # 0) <=> (err # NoError)
       /\ CFG["FLOW_MODE"] # "launch" => exitCode = 0
       /\ (err = NoError /\ CFG["FLOW_MODE"] = "launch") =>
            (RequestsOf("search") # <<>> /\ Len(failed) <= Len(RequestsOf("launch")))

\* A launch run has ended with status 0 although its only launch POST failed.
C12_Witness ==
  /\ pc = "done"
  /\ exitCode = 0
  /\ Len(RequestsOf("launch")) = 1
  /\ Len(failed) = 1

\* ---- C13 ----------------------------------------------------------------
\* C13 as stated: with an AUTH_MODE that is none of the four, getFhirToken
\* fails with the unsupported-mode error, no request sent, no key read.
C13_UnsupportedModeError ==
  (CFG["AUTH_MODE"] \notin SupportedModes /\ pc # "getFhirToken") =>
    /\ pc = "threw"
    /\ err = Error("UnsupportedMode")
    /\ reqs = <<>>
    /\ ~signing.read

\* C13 amended: with an AUTH_MODE that is none of the four, getFhirToken
\* fails without a token request being sent and without the private key being
\* read: with the unsupported-mode error if TOKEN_URL, CLIENT_ID and FHIR_BASE
\* are all set, and otherwise with the missing-settings error that lists the
\* missing ones of these three.  The unsupported-mode error is raised for no
\* other mode.
C13_UnsupportedModeFailsBeforeAnyRequest ==
  /\ (CFG["AUTH_MODE"] \notin SupportedModes /\ pc # "getFhirToken") =>
       /\ pc = "threw"
       /\ reqs = <<>>
       /\ ~signing.read
       /\ IF MissingSet(CFG, BaseKeys) = {}
          THEN err = Error("UnsupportedMode")
          ELSE err.kind = "MissingEnv" /\ Range(err.miss) = MissingSet(CFG, BaseKeys)
  /\ err.kind = "UnsupportedMode" => CFG["AUTH_MODE"] \notin SupportedModes

\* getFhirToken has failed with the unsupported-mode error although the
\* settings of every mode are there.
C13_Witness ==
  /\ pc = "threw"
  /\ err = Error("UnsupportedMode")
  /\ CFG["AUTH_MODE"] = "OTHER"
  /\ \A key \in FhirKeys : CFG[key] = "v"

\* ---- C14 ----------------------------------------------------------------
\* C14: once the FHIR token endpoint has answered successfully, either the
\* answer's access_token is present and not empty and getFhirToken has
\* returned exactly it, or the run has failed with the token-response error
\* and no token; getFhirToken never returns an empty token, returns a token
\* only from a successful answer, and no search request is sent without one.
C14_ReturnsTheAccessTokenOrFails ==
  /\ tokenResp.ok =>
       IF tokenResp.access_token \notin {Undefined, ""}
       THEN fhirToken = tokenResp.access_token /\ err.kind # "TokenResponse"
       ELSE /\ err = Error("TokenResponse")
            /\ fhirToken = Undefined
            /\ pc = "done"
            /\ exitCode = 1
            /\ Len(reqs) = 1
  /\ fhirToken # Undefined =>
       (tokenResp.ok /\ fhirToken = tokenResp.access_token /\ fhirToken # "")
  /\ err.kind = "TokenResponse" => tokenResp.ok
  /\ RequestsOf("search") # <<>> => fhirToken \notin {Undefined, ""}

\* The token endpoint answered successfully with an empty access_token: the
\* run has failed with the token-response error after that one request.
C14_Witness ==
  /\ tokenResp.ok
  /\ tokenResp.access_token = ""
  /\ err = Error("TokenResponse")
  /\ pc = "done"
  /\ Len(reqs) = 1

\* ---- C15 ----------------------------------------------------------------
\* The HTTP requests issued so far.
Issued == Len(reqs) + BagCardinality(fetched)

\* C15: at every point the requests issued are at most one more than the
\* requests answered (or failed), and none is outstanding when the run or the
\* resolver has ended; the launch POSTs issued so far are those of the first
\* Encounters with both ids of the sequence the resolver returned, in the
\* order of that sequence.
C15_OneRequestAtATimeInResolutionOrder ==
  /\ Issued - answered \in {0, 1}
  /\ pc \in {"done", "returned", "threw"} => Issued = answered
  /\ LET posts == RequestsOf("launch")
         eligible == SelectSeq(encounters, HasBothIds)
     IN /\ Len(posts) <= Len(eligible)
        /\ \A q \in 1..Len(posts) :
             /\ posts[q].a = eligible[q].id
             /\ posts[q].b = eligible[q].ref[2]
        /\ pc = "awaitLaunch" => Issued - answered = 1

\* A run has ended after a search of two pages and the launch POSTs for
\* Encounter 2 and then Encounter 1, the order in which the pages carried
\* them; every request was answered.
C15_Witness ==
  /\ pc = "done"
  /\ nServed = 2
  /\ Len(encounters) = 2
  /\ encounters[1].id = "2"
  /\ Len(RequestsOf("launch")) = 2
  /\ RequestsOf("launch")[1].a = "2"
  /\ RequestsOf("launch")[2].a = "1"
  /\ Issued = 6
  /\ answered = 6

\* ---- C16 ----------------------------------------------------------------
\* The result is a Bundle of type history with exactly two entries, the first
\* a Parameters resource with type=event-notification and status=active (once
\* each), the second the given Encounter.
IsNotificationOf(b, enc) ==
  /\ b.resourceType = "Bundle"
  /\ b.type = "history"
  /\ Len(b.entry) = 2
  /\ b.entry[1].resource.resourceType = "Parameters"
  /\ ParamCount(b.entry[1].resource.parameter, "type") = 1
  /\ ParamOf(b.entry[1].resource.parameter, "type") = "event-notification"
  /\ ParamCount(b.entry[1].resource.parameter, "status") = 1
  /\ ParamOf(b.entry[1].resource.parameter, "status") = "active"
  /\ b.entry[2].resource = enc

\* C16 as stated: for an Encounter with a non-empty id X the second entry's
\* fullUrl is "Encounter/X"; for an Encounter without id it is
\* "Encounter/unknown".
C16_FullUrlIsEncounterSlashId ==
  (pc = "returned") =>
    /\ IsNotificationOf(notification, encounter)
    /\ notification.entry[2].fullUrl =
         (IF encounter.id \in {NoId, <<"">>}
          THEN <<"Encounter", "unknown">>
          ELSE <<"Encounter">> \o encounter.id)

\* C16 amended: the Bundle is as stated, and the second entry's fullUrl is
\* the id itself when the id already starts with "Encounter/", "Encounter/X"
\* for any other non-empty id X, and "Encounter/unknown" for an Encounter
\* whose id is absent or empty.
C16_FullUrlKeepsAnIdThatIsAReference ==
  (pc = "returned") =>
    /\ IsNotificationOf(notification, encounter)
    /\ notification.entry[2].fullUrl =
         (IF encounter.id \in {NoId, <<"">>}
          THEN <<"Encounter", "unknown">>
          ELSE IF Len(encounter.id) >= 2 /\ encounter.id[1] = "Encounter"
          THEN encounter.id
          ELSE <<"Encounter">> \o encounter.id)

\* The builder was given an Encounter whose id is "Encounter/123", and no
\* options: the second fullUrl is "Encounter/123".
C16_Witness ==
  /\ pc = "returned"
  /\ bundleOptions = NoOptions
  /\ encounter.id = <<"Encounter", "123">>
  /\ notification.entry[2].fullUrl = <<"Encounter", "123">>
  /\ notification.entry[1].resource.id \in {"u1", "u2"}

\* ---- C17 ----------------------------------------------------------------
\* C17: in the GET strategy, once the Encounter search has served its last
\* page, the Condition search has been issued if and only if no page carried
\* an Encounter (a resource of type Encounter with an id, which is what the
\* resolver collects); a Condition search is only ever issued then, a GET
\* Encounter/<id> only after a Condition search; and when some page carried
\* an Encounter the resolver has returned with neither.
C17_GetFallbackIffFirstPassEmpty ==
  (strategy = "codesGet") =>
    LET firstPassOver == nServed >= 1 /\ ~lastNext
    IN /\ firstPassOver => (SearchRequests("Condition") # <<>> <=> servedIds = {})
       /\ SearchRequests("Condition") # <<>> => (firstPassOver /\ servedIds = {})
       /\ fetched # EmptyBag => SearchRequests("Condition") # <<>>
       /\ (firstPassOver /\ servedIds # {}) =>
            /\ pc = "returned"
            /\ fetched = EmptyBag
            /\ Len(reqs) = nServed
       /\ nServed2 > 0 => SearchRequests("Condition") # <<>>

\* The Encounter search served two pages without an Encounter: the fallback
\* has searched the Conditions and fetched two Encounters one by one.
C17_Witness ==
  /\ strategy = "codesGet"
  /\ pc = "returned"
  /\ nServed = 2
  /\ servedIds = {}
  /\ Len(SearchRequests("Condition")) = 1
  /\ BagCardinality(fetched) = 2

\* ---- C18 ----------------------------------------------------------------
\* The requests of the POST strategy's second search, without includes.
FallbackSearches ==
  SelectSeq(reqs, LAMBDA r : r.kind = "search" /\ r.b \in {"fallback", "fallback next"})

\* C18: in the POST strategy the search without includes is issued if and
\* only if the Map is empty once the first search, its direct fetches and all
\* its pages are done (it is empty when the search is issued, and a resolver
\* that is past that point without the search has returned a non-empty
\* result); when the resolver returns after the fallback, every Encounter id
\* a Condition of a fallback page refers to has been fetched by a GET of its
\* own, and no id has been fetched more than once in the fallback.
C18_PostFallbackIffEmptyEachIdFetchedOnce ==
  (strategy = "codesPost") =>
    LET firstOver == nServed >= 1 /\ ~lastNext /\ pc # "awaitPostDirectGet"
    IN /\ FallbackSearches # <<>> => (firstOver /\ servedIds = {})
       /\ (pc = "awaitPostFallbackSearch" /\ nServed2 = 0) => encs = <<>>
       /\ (firstOver /\ FallbackSearches = <<>>) =>
            (pc = "returned" /\ encounters # <<>>)
       /\ (pc = "returned" /\ FallbackSearches # <<>>) =>
            \A id \in fallbackRefIds :
              \E f \in BagToSet(fetched) : f.pass = "fallback" /\ f.id = id
       /\ \A f \in BagToSet(fetched) : f.pass = "fallback" => CopiesIn(f, fetched) = 1

\* ---- C19 ----------------------------------------------------------------
\* C19: every FHIR token request, in every mode, has exactly one grant_type
\* parameter, client_credentials, and exactly one scope parameter, the
\* configured scope or system/*.read when SCOPE is unset or empty; it has an
\* aud parameter (exactly one) if and only if REQUIRE_AUD is on, and its value
\* is the configured AUD or, when AUD is unset or empty, the TOKEN_URL.
C19_GrantScopeAndAudience ==
  \A q \in 1..Len(RequestsOf("fhirToken")) :
    LET form == RequestsOf("fhirToken")[q].b
    IN /\ ParamCount(form, "grant_type") = 1
       /\ ParamOf(form, "grant_type") = "client_credentials"
       /\ ParamCount(form, "scope") = 1
       /\ ParamOf(form, "scope") =
            (IF env.SCOPE \in {Undefined, ""} THEN "system/*.read" ELSE env.SCOPE)
       /\ ParamCount(form, "aud") = (IF CFG["REQUIRE_AUD"] THEN 1 ELSE 0)
       /\ CFG["REQUIRE_AUD"] =>
            ParamOf(form, "aud") =
              (IF env.AUD \in {Undefined, ""} THEN CFG["TOKEN_URL"] ELSE env.AUD)

\* A token request was sent in CLIENT_SECRET_POST mode with REQUIRE_AUD=false,
\* no SCOPE and an AUD: it has the default scope and no aud parameter.
C19_Witness ==
  /\ CFG["AUTH_MODE"] = "CLIENT_SECRET_POST"
  /\ env.SCOPE = Undefined
  /\ env.REQUIRE_AUD = "false"
  /\ env.AUD = "a"
  /\ Len(RequestsOf("fhirToken")) = 1
  /\ ParamOf(RequestsOf("fhirToken")[1].b, "scope") = "system/*.read"
  /\ ParamCount(RequestsOf("fhirToken")[1].b, "aud") = 0

\* ---- C20 ----------------------------------------------------------------
\* C20: whenever the assertion was signed, its payload has exp - iat = 300,
\* iat is Date.now() at the signing in whole seconds (rounded down), and iss
\* and sub are both the client id.
C20_AssertionLivesFiveMinutes ==
  \A q \in 1..Len(RequestsOf("fhirToken")) :
    CFG["AUTH_MODE"] \in {"SOF_BACKEND", "PRIVATE_KEY_JWT"} =>
      LET payload == ParamOf(RequestsOf("fhirToken")[q].b, "client_assertion").payload
      IN /\ signing.read
         /\ signing.at >= 0
         /\ payload.exp - payload.iat = 300
         /\ payload.iat * 1000 <= signing.at
         /\ signing.at < (payload.iat + 1) * 1000
         /\ payload.iss = CFG["CLIENT_ID"]
         /\ payload.sub = CFG["CLIENT_ID"]

\* The assertion was signed at Date.now() = 2500: iat is 2 and exp is 302.
C20_Witness ==
  /\ signing.at = 2500
  /\ Len(RequestsOf("fhirToken")) = 1
  /\ ParamOf(RequestsOf("fhirToken")[1].b, "client_assertion").payload.iat = 2
  /\ ParamOf(RequestsOf("fhirToken")[1].b, "client_assertion").payload.exp = 302

\* ---- C21 ----------------------------------------------------------------
\* C21: when a resolver returns, its result is the Map's values, every one of
\* them a resource of type Encounter with a non-empty id, kept in the Map
\* under that id; and every id in the result is one the search delivered or
\* one a GET Encounter/<id> asked for (an answer with another id, with no id
\* or of another type is not in the result).
C21_OnlyEncountersUnderTheirOwnId ==
  (pc = "returned" /\ strategy # "none") =>
    /\ encounters = MapValues(encs)
    /\ \A n \in 1..Len(encs) :
         /\ encs[n].v.resourceType = "Encounter"
         /\ encs[n].v.id \notin {Undefined, ""}
         /\ encs[n].k = encs[n].v.id
    /\ \A n \in 1..Len(encounters) :
         encounters[n].id \in servedIds \cup {f.id : f \in BagToSet(fetched)}

\* ---- C22 ----------------------------------------------------------------
\* C22: main selects the flow once, and never goes back to it.  The launch
\* flow runs if and only if FLOW_MODE is launch in some letter case: a launch
\* run never passes through the notify placeholder and ends with an error or
\* after some request.  For every other value (unset, notify, a misspelling)
\* only the placeholder runs: no request is issued, no setting is validated
\* (no error, whatever is missing), the key is not read, and the process
\* ends with status 0.
C22_LaunchOnlyWhenSelected ==
  LET launch == env.FLOW_MODE \in {"launch", "LAUNCH"}
  IN /\ launch <=> CFG["FLOW_MODE"] = "launch"
     /\ (launch /\ pc # "main") =>
          /\ pc # "runNotifyFlow"
          /\ pc = "done" => (err # NoError \/ reqs # <<>>)
     /\ ~launch =>
          /\ pc \in {"main", "runNotifyFlow", "done"}
          /\ reqs = <<>>
          /\ answered = 0
          /\ err = NoError
          /\ ~signing.read
          /\ pc = "done" <=> exitCode = 0
          /\ pc # "done" => exitCode = -1

\* A run with the misspelled FLOW_MODE=lunch, no TOKEN_URL and an unsupported
\* AUTH_MODE has ended with status 0 without a request.
C22_Witness ==
  /\ pc = "done"
  /\ exitCode = 0
  /\ env.FLOW_MODE = "lunch"
  /\ CFG["TOKEN_URL"] = Undefined
  /\ CFG["AUTH_MODE"] = "OTHER"
  /\ reqs = <<>>

\* ---- C23 ----------------------------------------------------------------
\* C23: when every request is eventually answered or fails and the server's
\* chain of next links is finite, each of the three resolvers eventually
\* terminates: it returns its list or throws, and stays there.
C23_EveryResolverTerminates ==
  <>[](pc \in {"returned", "threw"})

\* The POST resolver has returned after following the next links to the last
\* page, running its fallback search and fetching an Encounter directly.
C23_Witness ==
  /\ pc = "returned"
  /\ strategy = "codesPost"
  /\ nServed = MaxPages
  /\ nServed2 > 0
  /\ fetched # EmptyBag

====
